---- MODULE Spec2Model ----
\* Model of scripts/split.py: the Greek letter normalizer, the first-letter
\* key extractor, the partitioning pass of parse_xml_to_json and the writer
\* loop of write_json_files, driven by main.
\*
\* Python strings are sequences of Unicode code points (naturals).  A single
\* character is a string of length one, as in Python.
EXTENDS Integers, Sequences, FiniteSets, Bags, TLC

VARIABLES
    \* ---- one run of main() and its reruns ----
    pc,                 \* position of main(): start, partition, mkdir, write, done, aborted
    xml_ok,             \* whether ET.parse can read and parse the source document
    document,           \* the entry elements root.findall returns, in document order
    i,                  \* number of entry elements the for loop of line 100 has processed
    entries_by_letter,  \* the defaultdict(list) of parse_xml_to_json
    dir_exists,         \* whether the output directory exists
    files,              \* the output directory: file name -> content
    pending,            \* the keys the for loop of line 141 has still to visit
    files_created,      \* the list files_created of write_json_files
    reported,           \* <<n>> once line 183 has printed the success message
    error,              \* which call raised, "" while none did
    runs,               \* number of invocations of main() so far
    dir_start,          \* history: the output directory when the current run began
    dir_initial,        \* history: the output directory before the first run
    dir_success,        \* history: <<directory>> as the previous successful run left it
    outcomes,           \* history: how each earlier run ended and how many files it created
    \* ---- one call of get_first_letter_key ----
    kpc,                \* call, returned, renormalized
    orth_text,          \* the argument of get_first_letter_key
    normalized,         \* the local normalized of get_first_letter_key
    first_letter,       \* the value get_first_letter_key returned
    renormalized        \* normalize_greek_letter applied to normalized

mainvars == <<pc, xml_ok, document, i, entries_by_letter, dir_exists, files, pending,
              files_created, reported, error, runs, dir_start, dir_initial, dir_success, outcomes>>
keyvars == <<kpc, orth_text, normalized, first_letter, renormalized>>
vars == <<mainvars, keyvars>>

\* ---------------------------------------------------------------------------
\* Bounds
MaxRecords == 3   \* entry elements in the source document
MaxRuns == 2      \* invocations of main() on the same document
MaxLen == 2       \* characters of a headword handed to get_first_letter_key

\* ---------------------------------------------------------------------------
\* normalization_map (split.py lines 19-64), code point -> code point

\* split.py lines 21-26: Alpha variants
AlphaVariants ==
    (7936 :> 945) @@ (7937 :> 945) @@ (940 :> 945) @@ (8048 :> 945) @@ (8118 :> 945) @@ (7940 :> 945) @@
    (7938 :> 945) @@ (7942 :> 945) @@ (7941 :> 945) @@ (7939 :> 945) @@ (7943 :> 945) @@ (8115 :> 945) @@
    (8116 :> 945) @@ (8114 :> 945) @@ (8119 :> 945) @@ (8064 :> 945) @@ (8065 :> 945) @@ (8068 :> 945) @@
    (8066 :> 945) @@ (8069 :> 945) @@ (8067 :> 945) @@ (8070 :> 945) @@ (8071 :> 945) @@ (7944 :> 945) @@
    (7945 :> 945) @@ (902 :> 945) @@ (8122 :> 945) @@ (7948 :> 945) @@ (7946 :> 945) @@ (7950 :> 945) @@
    (7949 :> 945) @@ (7947 :> 945) @@ (7951 :> 945) @@ (8124 :> 945) @@ (8072 :> 945) @@ (8073 :> 945) @@
    (8076 :> 945) @@ (8074 :> 945) @@ (8077 :> 945) @@ (8075 :> 945) @@ (8078 :> 945) @@ (8079 :> 945)

\* split.py lines 28-29: Epsilon variants
EpsilonVariants ==
    (7952 :> 949) @@ (7953 :> 949) @@ (941 :> 949) @@ (8050 :> 949) @@ (7956 :> 949) @@ (7954 :> 949) @@
    (7957 :> 949) @@ (7955 :> 949) @@ (7960 :> 949) @@ (7961 :> 949) @@ (904 :> 949) @@ (8136 :> 949) @@
    (7964 :> 949) @@ (7962 :> 949) @@ (7965 :> 949) @@ (7963 :> 949)

\* split.py lines 31-36: Eta variants
EtaVariants ==
    (7968 :> 951) @@ (7969 :> 951) @@ (942 :> 951) @@ (8052 :> 951) @@ (8134 :> 951) @@ (7972 :> 951) @@
    (7970 :> 951) @@ (7974 :> 951) @@ (7973 :> 951) @@ (7971 :> 951) @@ (7975 :> 951) @@ (8131 :> 951) @@
    (8132 :> 951) @@ (8130 :> 951) @@ (8135 :> 951) @@ (8080 :> 951) @@ (8081 :> 951) @@ (8084 :> 951) @@
    (8082 :> 951) @@ (8085 :> 951) @@ (8083 :> 951) @@ (8086 :> 951) @@ (8087 :> 951) @@ (7976 :> 951) @@
    (7977 :> 951) @@ (905 :> 951) @@ (8138 :> 951) @@ (7980 :> 951) @@ (7978 :> 951) @@ (7982 :> 951) @@
    (7981 :> 951) @@ (7979 :> 951) @@ (7983 :> 951) @@ (8140 :> 951) @@ (8088 :> 951) @@ (8089 :> 951) @@
    (8092 :> 951) @@ (8090 :> 951) @@ (8093 :> 951) @@ (8091 :> 951) @@ (8094 :> 951) @@ (8095 :> 951)

\* split.py lines 38-41: Iota variants
IotaVariants ==
    (7984 :> 953) @@ (7985 :> 953) @@ (943 :> 953) @@ (8054 :> 953) @@ (8150 :> 953) @@ (7988 :> 953) @@
    (7986 :> 953) @@ (7990 :> 953) @@ (7989 :> 953) @@ (7987 :> 953) @@ (7991 :> 953) @@ (970 :> 953) @@
    (912 :> 953) @@ (8146 :> 953) @@ (8151 :> 953) @@ (7992 :> 953) @@ (7993 :> 953) @@ (906 :> 953) @@
    (8154 :> 953) @@ (7996 :> 953) @@ (7994 :> 953) @@ (7998 :> 953) @@ (7997 :> 953) @@ (7995 :> 953) @@
    (7999 :> 953) @@ (938 :> 953)

\* split.py lines 43-44: Omicron variants
OmicronVariants ==
    (8000 :> 959) @@ (8001 :> 959) @@ (972 :> 959) @@ (8056 :> 959) @@ (8004 :> 959) @@ (8002 :> 959) @@
    (8005 :> 959) @@ (8003 :> 959) @@ (8008 :> 959) @@ (8009 :> 959) @@ (908 :> 959) @@ (8184 :> 959) @@
    (8012 :> 959) @@ (8010 :> 959) @@ (8013 :> 959) @@ (8011 :> 959)

\* split.py lines 46-48: Upsilon variants
UpsilonVariants ==
    (8016 :> 965) @@ (8017 :> 965) @@ (973 :> 965) @@ (8058 :> 965) @@ (8166 :> 965) @@ (8020 :> 965) @@
    (8018 :> 965) @@ (8022 :> 965) @@ (8021 :> 965) @@ (8019 :> 965) @@ (8023 :> 965) @@ (971 :> 965) @@
    (944 :> 965) @@ (8162 :> 965) @@ (8167 :> 965) @@ (8025 :> 965) @@ (910 :> 965) @@ (8170 :> 965) @@
    (8029 :> 965) @@ (8027 :> 965) @@ (8031 :> 965) @@ (939 :> 965)

\* split.py lines 50-55: Omega variants
OmegaVariants ==
    (8032 :> 969) @@ (8033 :> 969) @@ (974 :> 969) @@ (8060 :> 969) @@ (8182 :> 969) @@ (8036 :> 969) @@
    (8034 :> 969) @@ (8038 :> 969) @@ (8037 :> 969) @@ (8035 :> 969) @@ (8039 :> 969) @@ (8179 :> 969) @@
    (8180 :> 969) @@ (8178 :> 969) @@ (8183 :> 969) @@ (8096 :> 969) @@ (8097 :> 969) @@ (8100 :> 969) @@
    (8098 :> 969) @@ (8101 :> 969) @@ (8099 :> 969) @@ (8102 :> 969) @@ (8103 :> 969) @@ (8040 :> 969) @@
    (8041 :> 969) @@ (911 :> 969) @@ (8186 :> 969) @@ (8044 :> 969) @@ (8042 :> 969) @@ (8046 :> 969) @@
    (8045 :> 969) @@ (8043 :> 969) @@ (8047 :> 969) @@ (8188 :> 969) @@ (8104 :> 969) @@ (8105 :> 969) @@
    (8108 :> 969) @@ (8106 :> 969) @@ (8109 :> 969) @@ (8107 :> 969) @@ (8110 :> 969) @@ (8111 :> 969)

\* split.py lines 57-57: Rho variants
RhoVariants ==
    (8165 :> 961) @@ (8164 :> 961) @@ (8172 :> 961)

\* split.py lines 59-61: Simple uppercase to lowercase
SimpleUppercase ==
    (913 :> 945) @@ (914 :> 946) @@ (915 :> 947) @@ (916 :> 948) @@ (917 :> 949) @@ (918 :> 950) @@
    (919 :> 951) @@ (920 :> 952) @@ (921 :> 953) @@ (922 :> 954) @@ (923 :> 955) @@ (924 :> 956) @@
    (925 :> 957) @@ (926 :> 958) @@ (927 :> 959) @@ (928 :> 960) @@ (929 :> 961) @@ (931 :> 963) @@
    (932 :> 964) @@ (933 :> 965) @@ (934 :> 966) @@ (935 :> 967) @@ (936 :> 968) @@ (937 :> 969)

\* 'ς': 'σ' written the wrong way round
FinalSigma_swapped == (963 :> 962)

\* split.py lines 63-63: Final sigma
FinalSigma ==
    (962 :> 963)

normalization_map ==
    AlphaVariants @@ EpsilonVariants @@ EtaVariants @@ IotaVariants @@ OmicronVariants @@
    UpsilonVariants @@ OmegaVariants @@ RhoVariants @@ SimpleUppercase @@ FinalSigma

\* ---------------------------------------------------------------------------
\* str.lower() of Python 3 on the characters of CharUniverse: the code points
\* whose lowercase differs from themselves.  U+0130 lowers to two code points.
\* (The final-sigma rule of str.lower needs a cased letter before the sigma and
\* so never applies to a string of one character.)

lower_table ==
    (65 :> <<97>>) @@ (66 :> <<98>>) @@ (67 :> <<99>>) @@ (68 :> <<100>>) @@ (69 :> <<101>>) @@
    (70 :> <<102>>) @@ (71 :> <<103>>) @@ (72 :> <<104>>) @@ (73 :> <<105>>) @@ (74 :> <<106>>) @@
    (75 :> <<107>>) @@ (76 :> <<108>>) @@ (77 :> <<109>>) @@ (78 :> <<110>>) @@ (79 :> <<111>>) @@
    (80 :> <<112>>) @@ (81 :> <<113>>) @@ (82 :> <<114>>) @@ (83 :> <<115>>) @@ (84 :> <<116>>) @@
    (85 :> <<117>>) @@ (86 :> <<118>>) @@ (87 :> <<119>>) @@ (88 :> <<120>>) @@ (89 :> <<121>>) @@
    (90 :> <<122>>) @@ (880 :> <<881>>) @@ (882 :> <<883>>) @@ (886 :> <<887>>) @@ (895 :> <<1011>>) @@
    (902 :> <<940>>) @@ (904 :> <<941>>) @@ (905 :> <<942>>) @@ (906 :> <<943>>) @@ (908 :> <<972>>) @@
    (910 :> <<973>>) @@ (911 :> <<974>>) @@ (913 :> <<945>>) @@ (914 :> <<946>>) @@ (915 :> <<947>>) @@
    (916 :> <<948>>) @@ (917 :> <<949>>) @@ (918 :> <<950>>) @@ (919 :> <<951>>) @@ (920 :> <<952>>) @@
    (921 :> <<953>>) @@ (922 :> <<954>>) @@ (923 :> <<955>>) @@ (924 :> <<956>>) @@ (925 :> <<957>>) @@
    (926 :> <<958>>) @@ (927 :> <<959>>) @@ (928 :> <<960>>) @@ (929 :> <<961>>) @@ (931 :> <<963>>) @@
    (932 :> <<964>>) @@ (933 :> <<965>>) @@ (934 :> <<966>>) @@ (935 :> <<967>>) @@ (936 :> <<968>>) @@
    (937 :> <<969>>) @@ (938 :> <<970>>) @@ (939 :> <<971>>) @@ (975 :> <<983>>) @@ (984 :> <<985>>) @@
    (986 :> <<987>>) @@ (988 :> <<989>>) @@ (990 :> <<991>>) @@ (992 :> <<993>>) @@ (994 :> <<995>>) @@
    (996 :> <<997>>) @@ (998 :> <<999>>) @@ (1000 :> <<1001>>) @@ (1002 :> <<1003>>) @@ (1004 :> <<1005>>) @@
    (1006 :> <<1007>>) @@ (1012 :> <<952>>) @@ (1015 :> <<1016>>) @@ (1017 :> <<1010>>) @@ (1018 :> <<1019>>) @@
    (1021 :> <<891>>) @@ (1022 :> <<892>>) @@ (1023 :> <<893>>) @@ (7944 :> <<7936>>) @@ (7945 :> <<7937>>) @@
    (7946 :> <<7938>>) @@ (7947 :> <<7939>>) @@ (7948 :> <<7940>>) @@ (7949 :> <<7941>>) @@ (7950 :> <<7942>>) @@
    (7951 :> <<7943>>) @@ (7960 :> <<7952>>) @@ (7961 :> <<7953>>) @@ (7962 :> <<7954>>) @@ (7963 :> <<7955>>) @@
    (7964 :> <<7956>>) @@ (7965 :> <<7957>>) @@ (7976 :> <<7968>>) @@ (7977 :> <<7969>>) @@ (7978 :> <<7970>>) @@
    (7979 :> <<7971>>) @@ (7980 :> <<7972>>) @@ (7981 :> <<7973>>) @@ (7982 :> <<7974>>) @@ (7983 :> <<7975>>) @@
    (7992 :> <<7984>>) @@ (7993 :> <<7985>>) @@ (7994 :> <<7986>>) @@ (7995 :> <<7987>>) @@ (7996 :> <<7988>>) @@
    (7997 :> <<7989>>) @@ (7998 :> <<7990>>) @@ (7999 :> <<7991>>) @@ (8008 :> <<8000>>) @@ (8009 :> <<8001>>) @@
    (8010 :> <<8002>>) @@ (8011 :> <<8003>>) @@ (8012 :> <<8004>>) @@ (8013 :> <<8005>>) @@ (8025 :> <<8017>>) @@
    (8027 :> <<8019>>) @@ (8029 :> <<8021>>) @@ (8031 :> <<8023>>) @@ (8040 :> <<8032>>) @@ (8041 :> <<8033>>) @@
    (8042 :> <<8034>>) @@ (8043 :> <<8035>>) @@ (8044 :> <<8036>>) @@ (8045 :> <<8037>>) @@ (8046 :> <<8038>>) @@
    (8047 :> <<8039>>) @@ (8072 :> <<8064>>) @@ (8073 :> <<8065>>) @@ (8074 :> <<8066>>) @@ (8075 :> <<8067>>) @@
    (8076 :> <<8068>>) @@ (8077 :> <<8069>>) @@ (8078 :> <<8070>>) @@ (8079 :> <<8071>>) @@ (8088 :> <<8080>>) @@
    (8089 :> <<8081>>) @@ (8090 :> <<8082>>) @@ (8091 :> <<8083>>) @@ (8092 :> <<8084>>) @@ (8093 :> <<8085>>) @@
    (8094 :> <<8086>>) @@ (8095 :> <<8087>>) @@ (8104 :> <<8096>>) @@ (8105 :> <<8097>>) @@ (8106 :> <<8098>>) @@
    (8107 :> <<8099>>) @@ (8108 :> <<8100>>) @@ (8109 :> <<8101>>) @@ (8110 :> <<8102>>) @@ (8111 :> <<8103>>) @@
    (8120 :> <<8112>>) @@ (8121 :> <<8113>>) @@ (8122 :> <<8048>>) @@ (8123 :> <<8049>>) @@ (8124 :> <<8115>>) @@
    (8136 :> <<8050>>) @@ (8137 :> <<8051>>) @@ (8138 :> <<8052>>) @@ (8139 :> <<8053>>) @@ (8140 :> <<8131>>) @@
    (8152 :> <<8144>>) @@ (8153 :> <<8145>>) @@ (8154 :> <<8054>>) @@ (8155 :> <<8055>>) @@ (8168 :> <<8160>>) @@
    (8169 :> <<8161>>) @@ (8170 :> <<8058>>) @@ (8171 :> <<8059>>) @@ (8172 :> <<8165>>) @@ (8184 :> <<8056>>) @@
    (8185 :> <<8057>>) @@ (8186 :> <<8060>>) @@ (8187 :> <<8061>>) @@ (8188 :> <<8179>>) @@ (304 :> <<105, 775>>) @@
    (8486 :> <<969>>)

RECURSIVE lower(_)
lower(s) ==
    IF s = <<>> THEN <<>>
    ELSE (IF s[1] \in DOMAIN lower_table THEN lower_table[s[1]] ELSE <<s[1]>>) \o lower(Tail(s))

\* normalization_map.get(letter, letter.lower()), line 66
normalize_greek_letter(letter) ==
    IF Len(letter) = 1 /\ letter[1] \in DOMAIN normalization_map
    THEN <<normalization_map[letter[1]]>>
    ELSE lower(letter)

\* 'αβγδεζηθικλμνξοπρστυφχψω', line 81
greek_alphabet ==
    <<945, 946, 947, 948, 949, 950, 951, 952, 953, 954, 955, 956,
      957, 958, 959, 960, 961, 963, 964, 965, 966, 967, 968, 969>>

\* the string 'other', lines 75, 85, 145
other == <<111, 116, 104, 101, 114>>

\* Python's substring test  a in b  on strings
IsSubstring(a, b) ==
    \E k \in 0..(Len(b) - Len(a)) : SubSeq(b, k + 1, k + Len(a)) = a

\* the membership test dropped: the normalized character is returned as it is
get_first_letter_key_nocheck(orth_text_) ==
    IF orth_text_ = <<>> THEN other
    ELSE normalize_greek_letter(<<orth_text_[1]>>)

\* get_first_letter_key, lines 69-85
get_first_letter_key(orth_text_) ==
    IF orth_text_ = <<>> THEN other
    ELSE LET first_char == <<orth_text_[1]>>
             normalized_ == normalize_greek_letter(first_char)
         IN IF normalized_ # <<>> /\ IsSubstring(normalized_, greek_alphabet)
            THEN normalized_
            ELSE other

\* ---------------------------------------------------------------------------
\* The source document.  An absent attribute, an absent element and an
\* element without text (None) are the empty tuple; a present one is <<value>>.

Str_a1 == <<7940, 957>>       \* "ἄν", as in ἄνθρωπος
Str_b == <<946, 943>>         \* "βί", as in βίος

EntryKinds ==
    { [n |-> <<"1">>, orth |-> << [text |-> <<Str_a1>>] >>,
       defs |-> << [role |-> <<"brief">>, text |-> <<"man">>],
                   [role |-> <<"full">>, text |-> <<>>] >>],
      [n |-> <<"3">>, orth |-> << [text |-> <<Str_b>>] >>,
       defs |-> << [role |-> <<>>, text |-> <<"life">>] >>],
      [n |-> <<>>, orth |-> <<>>, defs |-> <<>>],
      [n |-> <<"5">>, orth |-> << [text |-> <<>>] >>, defs |-> <<>>] }

Documents == UNION { [1..len -> EntryKinds] : len \in 0..MaxRecords }

\* the body of the for loop up to line 121: the Record built from one entry element
entry_data(entry) ==
    [n |-> IF entry.n = <<>> THEN "" ELSE entry.n[1],
     orth |-> IF entry.orth = <<>> THEN <<>>
              ELSE IF entry.orth[1].text = <<>> THEN <<>> ELSE entry.orth[1].text[1],
     definitions |-> [d \in 1..Len(entry.defs) |->
                        [role |-> IF entry.defs[d].role = <<>> THEN "" ELSE entry.defs[d].role[1],
                         text |-> IF entry.defs[d].text = <<>> THEN "" ELSE entry.defs[d].text[1]]]]

\* the group of a key, as reading a defaultdict(list) gives it (line 142)
Group(groups, letter) ==
    IF letter \in DOMAIN groups THEN groups[letter] ELSE <<>>

\* the group replaced by the new Record instead of extended by it
AppendEntry_overwrite(groups, letter, data) ==
    IF letter \in DOMAIN groups
    THEN [groups EXCEPT ![letter] = <<data>>]
    ELSE groups @@ (letter :> <<data>>)

\* the new Record put in front of its group
AppendEntry_prepend(groups, letter, data) ==
    IF letter \in DOMAIN groups
    THEN [groups EXCEPT ![letter] = <<data>> \o @]
    ELSE groups @@ (letter :> <<data>>)

\* entries_by_letter[first_letter].append(entry_data), line 125
AppendEntry(groups, letter, data) ==
    IF letter \in DOMAIN groups
    THEN [groups EXCEPT ![letter] = Append(@, data)]
    ELSE groups @@ (letter :> <<data>>)

\* Python's < on strings: lexicographic by code point
RECURSIVE StrLess(_, _)
StrLess(a, b) ==
    IF a = <<>> THEN b # <<>>
    ELSE IF b = <<>> THEN FALSE
    ELSE IF a[1] # b[1] THEN a[1] < b[1]
    ELSE StrLess(Tail(a), Tail(b))

\* the keys in descending order
RECURSIVE sorted_reverse(_)
sorted_reverse(S) ==
    IF S = {} THEN <<>>
    ELSE LET m == CHOOSE x \in S : \A y \in S \ {x} : StrLess(y, x)
         IN <<m>> \o sorted_reverse(S \ {m})

\* sorted(entries_by_letter.keys()), line 141
RECURSIVE sorted(_)
sorted(S) ==
    IF S = {} THEN <<>>
    ELSE LET m == CHOOSE x \in S : \A y \in S \ {x} : StrLess(x, y)
         IN <<m>> \o sorted(S \ {m})

\* the file name of a group, lines 145-148
dot_json == <<46, 106, 115, 111, 110>>
filename_of(letter) ==
    IF letter = other THEN other \o dot_json ELSE letter \o dot_json

\* len(letter) written for len(entries)
Unit_lenletter(letter, entries) ==
    [kind |-> "unit", letter |-> letter, count |-> Len(letter), entries |-> entries]

\* the object json.dump serializes, lines 154-158
Unit(letter, entries) ==
    [kind |-> "unit", letter |-> letter, count |-> Len(entries), entries |-> entries]

\* a file some earlier, unrelated activity left in the directory
Stale == [kind |-> "stale", letter |-> <<>>, count |-> 0, entries |-> <<>>]
\* a file opened with mode 'w' whose json.dump did not complete
Partial == [kind |-> "partial", letter |-> <<>>, count |-> 0, entries |-> <<>>]

\* the file is opened for appending instead of truncated
WriteFile_append(fs, name, content) ==
    IF name \in DOMAIN fs
    THEN [fs EXCEPT ![name] = [content EXCEPT !.kind = "appended"]]
    ELSE fs @@ (name :> content)

\* open(filepath, 'w') followed by a write, lines 153-158
WriteFile(fs, name, content) ==
    IF name \in DOMAIN fs
    THEN [fs EXCEPT ![name] = content]
    ELSE fs @@ (name :> content)

InitialNames == { filename_of(<<946>>) }
InitialDirs ==
    { [exists |-> FALSE, files |-> <<>>] } \cup
    { [exists |-> TRUE, files |-> [f \in S |-> Stale]] : S \in SUBSET InitialNames }

Dir == [exists |-> dir_exists, files |-> files]

\* ---------------------------------------------------------------------------
\* get_first_letter_key on its own

TailChars == { 945, 49, 962 }
CharUniverse == (32..126) \cup (880..1023) \cup (7936..8191) \cup {304, 775, 8486}
Headwords ==
    { <<>> } \cup
    { <<c>> \o t : c \in CharUniverse,
                   t \in UNION { [1..len -> TailChars] : len \in 0..(MaxLen - 1) } }

KeyIdle ==
    /\ kpc = "idle"
    /\ orth_text = <<>>
    /\ normalized = <<>>
    /\ first_letter = <<>>
    /\ renormalized = <<>>

MainIdle ==
    /\ pc = "idle"
    /\ xml_ok = FALSE
    /\ document = <<>>
    /\ i = 0
    /\ entries_by_letter = <<>>
    /\ dir_exists = FALSE
    /\ files = <<>>
    /\ pending = <<>>
    /\ files_created = <<>>
    /\ reported = <<>>
    /\ error = ""
    /\ runs = 0
    /\ dir_start = [exists |-> FALSE, files |-> <<>>]
    /\ dir_initial = [exists |-> FALSE, files |-> <<>>]
    /\ dir_success = <<>>
    /\ outcomes = <<>>

KeyInit ==
    /\ MainIdle
    /\ kpc = "call"
    /\ orth_text \in Headwords
    /\ normalized = <<>>
    /\ first_letter = <<>>
    /\ renormalized = <<>>

\* get_first_letter_key(orth_text), lines 69-85
KeyCall ==
    /\ kpc = "call"
    /\ first_letter' = get_first_letter_key(orth_text)
    /\ normalized' = IF orth_text = <<>> THEN <<>>
                     ELSE normalize_greek_letter(<<orth_text[1]>>)
    /\ kpc' = "returned"
    /\ UNCHANGED <<orth_text, renormalized, mainvars>>

\* normalize_greek_letter applied to its own result
NormalizeAgain ==
    /\ kpc = "returned"
    /\ orth_text # <<>>
    /\ renormalized' = normalize_greek_letter(normalized)
    /\ kpc' = "renormalized"
    /\ UNCHANGED <<orth_text, normalized, first_letter, mainvars>>

KeyNext == KeyCall \/ NormalizeAgain
KeySpec == KeyInit /\ [][KeyNext]_vars

\* ---------------------------------------------------------------------------
\* main(), lines 166-183

Init ==
    /\ KeyIdle
    /\ pc = "start"
    /\ \/ xml_ok = TRUE /\ document \in Documents
       \/ xml_ok = FALSE /\ document = <<>>
    /\ i = 0
    /\ entries_by_letter = <<>>
    /\ \E d \in InitialDirs :
         /\ dir_exists = d.exists
         /\ files = d.files
         /\ dir_start = d
         /\ dir_initial = d
    /\ pending = <<>>
    /\ files_created = <<>>
    /\ reported = <<>>
    /\ error = ""
    /\ runs = 1
    /\ dir_success = <<>>
    /\ outcomes = <<>>

histvars == <<dir_start, dir_initial, dir_success, outcomes>>

\* the output directory is created before the document is parsed
ParseFail_mkdir ==
    /\ pc = "start"
    /\ ~xml_ok
    /\ pc' = "aborted"
    /\ error' = "parse"
    /\ dir_exists' = TRUE
    /\ UNCHANGED <<xml_ok, document, i, entries_by_letter, files, pending,
                   files_created, reported, runs, histvars, keyvars>>

\* ET.parse raises (line 93); the exception leaves parse_xml_to_json and main
ParseFail ==
    /\ pc = "start"
    /\ ~xml_ok
    /\ pc' = "aborted"
    /\ error' = "parse"
    /\ UNCHANGED <<xml_ok, document, i, entries_by_letter, dir_exists, files, pending,
                   files_created, reported, runs, histvars, keyvars>>

\* lines 93-97: the document is parsed and the empty defaultdict created
ParseOk ==
    /\ pc = "start"
    /\ xml_ok
    /\ pc' = "partition"
    /\ i' = 0
    /\ entries_by_letter' = <<>>
    /\ UNCHANGED <<xml_ok, document, dir_exists, files, pending, files_created,
                   reported, error, runs, histvars, keyvars>>

\* one iteration of the for loop of lines 100-125
PartitionStep ==
    /\ pc = "partition"
    /\ i < Len(document)
    /\ LET data == entry_data(document[i + 1])
           letter == get_first_letter_key(data.orth)
       IN entries_by_letter' = AppendEntry(entries_by_letter, letter, data)
    /\ i' = i + 1
    /\ UNCHANGED <<pc, xml_ok, document, dir_exists, files, pending, files_created,
                   reported, error, runs, histvars, keyvars>>

\* line 127 and lines 175-181: parse_xml_to_json returns, main calls write_json_files
PartitionReturn ==
    /\ pc = "partition"
    /\ i = Len(document)
    /\ pc' = "mkdir"
    /\ UNCHANGED <<xml_ok, document, i, entries_by_letter, dir_exists, files, pending,
                   files_created, reported, error, runs, histvars, keyvars>>

\* output_path.mkdir raises (line 136)
MkdirFail ==
    /\ pc = "mkdir"
    /\ pc' = "aborted"
    /\ error' = "mkdir"
    /\ UNCHANGED <<xml_ok, document, i, entries_by_letter, dir_exists, files, pending,
                   files_created, reported, runs, histvars, keyvars>>

\* lines 135-141: the directory exists afterwards, the keys are sorted
Mkdir ==
    /\ pc = "mkdir"
    /\ dir_exists' = TRUE
    /\ files_created' = <<>>
    /\ pending' = sorted(DOMAIN entries_by_letter)
    /\ pc' = "write"
    /\ UNCHANGED <<xml_ok, document, i, entries_by_letter, files, reported, error,
                   runs, histvars, keyvars>>

\* the failure of one write is skipped over and the loop goes on
WriteFail_swallowed ==
    /\ pc = "write"
    /\ pending # <<>>
    /\ \/ UNCHANGED files
       \/ files' = WriteFile(files, filename_of(Head(pending)), Partial)
    /\ pending' = Tail(pending)
    /\ error' = "write"
    /\ UNCHANGED <<pc, xml_ok, document, i, entries_by_letter, dir_exists,
                   files_created, reported, runs, histvars, keyvars>>

\* open raises and the file is untouched (line 153), or json.dump raises after
\* the file was truncated (lines 154-158); the exception leaves main
WriteFail ==
    /\ pc = "write"
    /\ pending # <<>>
    /\ \/ UNCHANGED files
       \/ files' = WriteFile(files, filename_of(Head(pending)), Partial)
    /\ pc' = "aborted"
    /\ error' = "write"
    /\ UNCHANGED <<xml_ok, document, i, entries_by_letter, dir_exists, pending,
                   files_created, reported, runs, histvars, keyvars>>

\* one iteration of the for loop of lines 141-161
WriteUnit ==
    /\ pc = "write"
    /\ pending # <<>>
    /\ LET letter == Head(pending)
           entries == Group(entries_by_letter, letter)
           filename == filename_of(letter)
       IN /\ files' = WriteFile(files, filename, Unit(letter, entries))
          /\ files_created' = Append(files_created, filename)
    /\ pending' = Tail(pending)
    /\ UNCHANGED <<pc, xml_ok, document, i, entries_by_letter, dir_exists,
                   reported, error, runs, histvars, keyvars>>

\* lines 163 and 183: write_json_files returns, main reports the number of files
WriteReturn ==
    /\ pc = "write"
    /\ pending = <<>>
    /\ pc' = "done"
    /\ reported' = <<Len(files_created)>>
    /\ UNCHANGED <<xml_ok, document, i, entries_by_letter, dir_exists, files, pending,
                   files_created, error, runs, histvars, keyvars>>

\* the operator invokes the tool again on the same document (lines 186-187)
Rerun ==
    /\ pc \in {"done", "aborted"}
    /\ runs < MaxRuns
    /\ runs' = runs + 1
    /\ pc' = "start"
    /\ i' = 0
    /\ entries_by_letter' = <<>>
    /\ pending' = <<>>
    /\ files_created' = <<>>
    /\ reported' = <<>>
    /\ error' = ""
    /\ dir_start' = Dir
    /\ dir_success' = IF pc = "done" THEN <<Dir>> ELSE dir_success
    /\ outcomes' = Append(outcomes, <<IF pc = "done" THEN "done" ELSE error, Len(files_created)>>)
    /\ UNCHANGED <<xml_ok, document, dir_exists, files, dir_initial, keyvars>>

Next ==
    \/ ParseFail
    \/ ParseOk
    \/ PartitionStep
    \/ PartitionReturn
    \/ MkdirFail
    \/ Mkdir
    \/ WriteFail
    \/ WriteUnit
    \/ WriteReturn
    \/ Rerun

Spec == Init /\ [][Next]_vars

\* ---------------------------------------------------------------------------
\* Properties

\* the Records the pass has built from the first i entry elements
Records == [j \in 1..i |-> entry_data(document[j])]
AllRecords == [j \in 1..Len(document) |-> entry_data(document[j])]
KeyOf(r) == get_first_letter_key(r.orth)
Occ(s, r) == Cardinality({j \in 1..Len(s) : s[j] = r})
RECURSIVE SumLen(_, _)
SumLen(groups, S) ==
    IF S = {} THEN 0
    ELSE LET k == CHOOSE x \in S : TRUE
         IN Len(groups[k]) + SumLen(groups, S \ {k})
Partitioned == pc \in {"partition", "mkdir", "write", "done"}
Letters == { <<greek_alphabet[j]>> : j \in 1..Len(greek_alphabet) }

\* C1: after each step of the partitioning pass, every Record of the prefix
\* processed so far is in exactly one group, as often as it occurs in the
\* prefix, and the group sizes add up to the number of Records processed.
C1_PartitionComplete ==
    Partitioned =>
        /\ SumLen(entries_by_letter, DOMAIN entries_by_letter) = i
        /\ \A j \in 1..i :
             \E k \in DOMAIN entries_by_letter :
                /\ Occ(entries_by_letter[k], Records[j]) = Occ(Records, Records[j])
                /\ \A k2 \in DOMAIN entries_by_letter \ {k} :
                      Occ(entries_by_letter[k2], Records[j]) = 0

\* the pass is over for a document of three entries, two of them equal and one
\* without id, headword and definitions
C1_Witness ==
    /\ pc = "mkdir"
    /\ i = 3
    /\ Len(document) = 3
    /\ document[1] = document[3]
    /\ document[2] = [n |-> <<>>, orth |-> <<>>, defs |-> <<>>]
    /\ Cardinality(DOMAIN entries_by_letter) = 2

\* C2: every group holds the Records of its key in the order of the input:
\* it is the input sequence filtered by the key.
C2_OrderPreserved ==
    Partitioned =>
        \A k \in DOMAIN entries_by_letter :
            LET HasKey(r) == KeyOf(r) = k
            IN entries_by_letter[k] = SelectSeq(Records, HasKey)

\* two different Records of key 'other' with a Record of key beta between them
C2_Witness ==
    /\ pc = "mkdir"
    /\ Len(document) = 3
    /\ Records[1].n = "5"
    /\ Records[2].orth = Str_b
    /\ Records[3].n = ""
    /\ entries_by_letter[other] = <<Records[1], Records[3]>>

\* C3: get_first_letter_key returns one of the 24 letters or 'other'; 'other'
\* for the empty headword and when the normalized first character is not one
\* of the 24 letters, else the normalized first character; only the first
\* character counts.
C3_KeyTotal ==
    kpc # "call" /\ kpc # "idle" =>
        /\ first_letter \in Letters \cup {other}
        /\ orth_text = <<>> => first_letter = other
        /\ orth_text # <<>> =>
             /\ normalized = normalize_greek_letter(<<orth_text[1]>>)
             /\ first_letter = IF normalized \in Letters THEN normalized ELSE other

\* a headword starting with a digit and going on with a Greek letter
C3_Witness ==
    /\ kpc = "returned"
    /\ orth_text = <<49, 945>>
    /\ first_letter = other

\* the position of a file's key in the order the claim gives: the index of the
\* letter in the canonical alphabet, 'other' at otherRank
KeyOfFile(f) == SubSeq(f, 1, Len(f) - Len(dot_json))
Rank(f, otherRank) ==
    IF KeyOfFile(f) = other THEN otherRank
    ELSE CHOOSE j \in 1..Len(greek_alphabet) : greek_alphabet[j] = KeyOfFile(f)[1]

\* C4 as stated: the groups are emitted in the order of the canonical alphabet
\* and the fallback group 'other' is emitted last.
C4_OtherLast ==
    \A a, b \in 1..Len(files_created) :
        a < b => Rank(files_created[a], 25) < Rank(files_created[b], 25)

\* C4 amended: the groups are emitted in the order of the canonical alphabet
\* and the fallback group 'other' is emitted first, before every letter group.
C4_OtherFirst ==
    \A a, b \in 1..Len(files_created) :
        a < b => Rank(files_created[a], 0) < Rank(files_created[b], 0)

\* a finished run that emitted 'other' and two letter groups
C4_Witness ==
    /\ pc = "done"
    /\ Len(files_created) = 3
    /\ files_created[1] = filename_of(other)
    /\ files_created[3] = filename_of(<<946>>)

\* The precomposed characters of CharUniverse whose canonical decomposition is
\* a vowel or rho (either case) followed only by breathings, acute, grave or
\* circumflex accent, diaeresis and iota subscript, each with its bare
\* lowercase letter.
DecoratedForms ==
    (902 :> 945) @@ (904 :> 949) @@ (905 :> 951) @@ (906 :> 953) @@ (908 :> 959) @@ (910 :> 965) @@
    (911 :> 969) @@ (912 :> 953) @@ (938 :> 953) @@ (939 :> 965) @@ (940 :> 945) @@ (941 :> 949) @@
    (942 :> 951) @@ (943 :> 953) @@ (944 :> 965) @@ (970 :> 953) @@ (971 :> 965) @@ (972 :> 959) @@
    (973 :> 965) @@ (974 :> 969) @@ (7936 :> 945) @@ (7937 :> 945) @@ (7938 :> 945) @@ (7939 :> 945) @@
    (7940 :> 945) @@ (7941 :> 945) @@ (7942 :> 945) @@ (7943 :> 945) @@ (7944 :> 945) @@ (7945 :> 945) @@
    (7946 :> 945) @@ (7947 :> 945) @@ (7948 :> 945) @@ (7949 :> 945) @@ (7950 :> 945) @@ (7951 :> 945) @@
    (7952 :> 949) @@ (7953 :> 949) @@ (7954 :> 949) @@ (7955 :> 949) @@ (7956 :> 949) @@ (7957 :> 949) @@
    (7960 :> 949) @@ (7961 :> 949) @@ (7962 :> 949) @@ (7963 :> 949) @@ (7964 :> 949) @@ (7965 :> 949) @@
    (7968 :> 951) @@ (7969 :> 951) @@ (7970 :> 951) @@ (7971 :> 951) @@ (7972 :> 951) @@ (7973 :> 951) @@
    (7974 :> 951) @@ (7975 :> 951) @@ (7976 :> 951) @@ (7977 :> 951) @@ (7978 :> 951) @@ (7979 :> 951) @@
    (7980 :> 951) @@ (7981 :> 951) @@ (7982 :> 951) @@ (7983 :> 951) @@ (7984 :> 953) @@ (7985 :> 953) @@
    (7986 :> 953) @@ (7987 :> 953) @@ (7988 :> 953) @@ (7989 :> 953) @@ (7990 :> 953) @@ (7991 :> 953) @@
    (7992 :> 953) @@ (7993 :> 953) @@ (7994 :> 953) @@ (7995 :> 953) @@ (7996 :> 953) @@ (7997 :> 953) @@
    (7998 :> 953) @@ (7999 :> 953) @@ (8000 :> 959) @@ (8001 :> 959) @@ (8002 :> 959) @@ (8003 :> 959) @@
    (8004 :> 959) @@ (8005 :> 959) @@ (8008 :> 959) @@ (8009 :> 959) @@ (8010 :> 959) @@ (8011 :> 959) @@
    (8012 :> 959) @@ (8013 :> 959) @@ (8016 :> 965) @@ (8017 :> 965) @@ (8018 :> 965) @@ (8019 :> 965) @@
    (8020 :> 965) @@ (8021 :> 965) @@ (8022 :> 965) @@ (8023 :> 965) @@ (8025 :> 965) @@ (8027 :> 965) @@
    (8029 :> 965) @@ (8031 :> 965) @@ (8032 :> 969) @@ (8033 :> 969) @@ (8034 :> 969) @@ (8035 :> 969) @@
    (8036 :> 969) @@ (8037 :> 969) @@ (8038 :> 969) @@ (8039 :> 969) @@ (8040 :> 969) @@ (8041 :> 969) @@
    (8042 :> 969) @@ (8043 :> 969) @@ (8044 :> 969) @@ (8045 :> 969) @@ (8046 :> 969) @@ (8047 :> 969) @@
    (8048 :> 945) @@ (8049 :> 945) @@ (8050 :> 949) @@ (8051 :> 949) @@ (8052 :> 951) @@ (8053 :> 951) @@
    (8054 :> 953) @@ (8055 :> 953) @@ (8056 :> 959) @@ (8057 :> 959) @@ (8058 :> 965) @@ (8059 :> 965) @@
    (8060 :> 969) @@ (8061 :> 969) @@ (8064 :> 945) @@ (8065 :> 945) @@ (8066 :> 945) @@ (8067 :> 945) @@
    (8068 :> 945) @@ (8069 :> 945) @@ (8070 :> 945) @@ (8071 :> 945) @@ (8072 :> 945) @@ (8073 :> 945) @@
    (8074 :> 945) @@ (8075 :> 945) @@ (8076 :> 945) @@ (8077 :> 945) @@ (8078 :> 945) @@ (8079 :> 945) @@
    (8080 :> 951) @@ (8081 :> 951) @@ (8082 :> 951) @@ (8083 :> 951) @@ (8084 :> 951) @@ (8085 :> 951) @@
    (8086 :> 951) @@ (8087 :> 951) @@ (8088 :> 951) @@ (8089 :> 951) @@ (8090 :> 951) @@ (8091 :> 951) @@
    (8092 :> 951) @@ (8093 :> 951) @@ (8094 :> 951) @@ (8095 :> 951) @@ (8096 :> 969) @@ (8097 :> 969) @@
    (8098 :> 969) @@ (8099 :> 969) @@ (8100 :> 969) @@ (8101 :> 969) @@ (8102 :> 969) @@ (8103 :> 969) @@
    (8104 :> 969) @@ (8105 :> 969) @@ (8106 :> 969) @@ (8107 :> 969) @@ (8108 :> 969) @@ (8109 :> 969) @@
    (8110 :> 969) @@ (8111 :> 969) @@ (8114 :> 945) @@ (8115 :> 945) @@ (8116 :> 945) @@ (8118 :> 945) @@
    (8119 :> 945) @@ (8122 :> 945) @@ (8123 :> 945) @@ (8124 :> 945) @@ (8130 :> 951) @@ (8131 :> 951) @@
    (8132 :> 951) @@ (8134 :> 951) @@ (8135 :> 951) @@ (8136 :> 949) @@ (8137 :> 949) @@ (8138 :> 951) @@
    (8139 :> 951) @@ (8140 :> 951) @@ (8146 :> 953) @@ (8147 :> 953) @@ (8150 :> 953) @@ (8151 :> 953) @@
    (8154 :> 953) @@ (8155 :> 953) @@ (8162 :> 965) @@ (8163 :> 965) @@ (8164 :> 961) @@ (8165 :> 961) @@
    (8166 :> 965) @@ (8167 :> 965) @@ (8170 :> 965) @@ (8171 :> 965) @@ (8172 :> 961) @@ (8178 :> 969) @@
    (8179 :> 969) @@ (8180 :> 969) @@ (8182 :> 969) @@ (8183 :> 969) @@ (8184 :> 959) @@ (8185 :> 959) @@
    (8186 :> 969) @@ (8187 :> 969) @@ (8188 :> 969)

\* C5 as stated: a headword starting with any decorated form of a vowel or of
\* rho is keyed under the bare lowercase letter.
C5_DecoratedKeyed ==
    (kpc = "returned" /\ orth_text # <<>> /\ orth_text[1] \in DOMAIN DecoratedForms) =>
        first_letter = <<DecoratedForms[orth_text[1]]>>

\* C6: when reading the document fails the run is aborted, the output
\* directory is as it was when the run began (not created, no file created or
\* changed), and write_json_files runs only on the complete Partition Result.
C6_ParseFailureWritesNothing ==
    /\ (~xml_ok /\ pc # "start") =>
           /\ pc = "aborted"
           /\ error = "parse"
           /\ Dir = dir_start
           /\ files_created = <<>>
           /\ reported = <<>>
    /\ pc \in {"mkdir", "write", "done"} => (xml_ok /\ i = Len(document))

\* the first run failed to read the document and there is no output directory
C6_Witness ==
    /\ pc = "aborted"
    /\ error = "parse"
    /\ runs = 1
    /\ ~dir_exists

SameFile(f, d) ==
    /\ f \in DOMAIN files <=> f \in DOMAIN d.files
    /\ f \in DOMAIN files => files[f] = d.files[f]

\* C7: when the write of a group fails the run is aborted there: the files of
\* the later groups are as they were when the run began, the files of the
\* earlier groups hold the units written, and no success is reported.
C7_WriteFailureAborts ==
    error = "write" =>
        /\ pc = "aborted"
        /\ pending # <<>>
        /\ reported = <<>>
        /\ \A j \in 2..Len(pending) : SameFile(filename_of(pending[j]), dir_start)
        /\ \A j \in 1..Len(files_created) :
             LET k == KeyOfFile(files_created[j])
             IN /\ files_created[j] \in DOMAIN files
                /\ files[files_created[j]] = Unit(k, entries_by_letter[k])

\* the second of three groups failed while a stale file of the third was there
C7_Witness ==
    /\ pc = "aborted"
    /\ error = "write"
    /\ Len(files_created) = 1
    /\ Len(pending) = 2
    /\ filename_of(pending[2]) \in DOMAIN files
    /\ files[filename_of(pending[2])] = Stale

\* C8: the 24 plain lowercase letters are returned unchanged, and normalizing
\* the result of normalize_greek_letter again changes nothing.
C8_Idempotent ==
    /\ (kpc \in {"returned", "renormalized"} /\ orth_text # <<>> /\ <<orth_text[1]>> \in Letters)
          => normalized = <<orth_text[1]>>
    /\ kpc = "renormalized" => renormalized = normalized

\* final sigma, normalized to sigma and normalized again
C8_Witness ==
    /\ kpc = "renormalized"
    /\ orth_text[1] = 962
    /\ normalized = <<963>>
    /\ renormalized = <<963>>

InputKeys == { KeyOf(AllRecords[j]) : j \in 1..Len(document) }

\* C9: a successful run wrote exactly one file per key that has a Record, with
\* the number of Records of that key as its count, left every other file as it
\* was, and reported the number of distinct keys.
C9_UnitsAreKeys ==
    pc = "done" =>
        /\ { files_created[j] : j \in 1..Len(files_created) } = { filename_of(k) : k \in InputKeys }
        /\ Len(files_created) = Cardinality(InputKeys)
        /\ reported = <<Cardinality(InputKeys)>>
        /\ \A k \in InputKeys :
             /\ filename_of(k) \in DOMAIN files
             /\ files[filename_of(k)].kind = "unit"
             /\ files[filename_of(k)].letter = k
             /\ files[filename_of(k)].count =
                   Cardinality({ j \in 1..Len(document) : KeyOf(AllRecords[j]) = k })
        /\ \A f \in (DOMAIN files \cup DOMAIN dir_start.files) \ { filename_of(k) : k \in InputKeys } :
             SameFile(f, dir_start)

\* a successful run with two keys, one of them holding two Records, while a
\* stale file of letter beta, which has no Record, stays as it was
C9_Witness ==
    /\ pc = "done"
    /\ Len(document) = 3
    /\ Cardinality(InputKeys) = 2
    /\ <<946>> \notin InputKeys
    /\ filename_of(<<946>>) \in DOMAIN files
    /\ files[filename_of(<<946>>)] = Stale

\* what one uninterrupted successful run makes of the directory d
ExpectedDir(d) ==
    [exists |-> TRUE,
     files |-> [f \in DOMAIN d.files \cup { filename_of(k) : k \in InputKeys } |->
                  IF \E k \in InputKeys : f = filename_of(k)
                  THEN LET k == CHOOSE x \in InputKeys : f = filename_of(x)
                           HasKey(r) == KeyOf(r) = k
                       IN Unit(k, SelectSeq(AllRecords, HasKey))
                  ELSE d.files[f]]]

\* C10: every successful run, the first one, one after a successful run and one
\* after aborted runs, leaves the output directory as one uninterrupted
\* successful run from the initial directory leaves it, and as the previous
\* successful run left it.
C10_RerunIdempotent ==
    pc = "done" =>
        /\ Dir = ExpectedDir(dir_initial)
        /\ dir_success # <<>> => Dir = dir_success[1]

\* the second run succeeded on three groups after the first run aborted at the
\* second group, leaving it half written
C10_Witness ==
    /\ pc = "done"
    /\ runs = 2
    /\ outcomes = << <<"write", 1>> >>
    /\ Len(files_created) = 3
    /\ dir_start.files[files_created[2]] = Partial
====
